---- MODULE Spec2Model ----
(***************************************************************************)
(* configen: the type-compatibility classifier (is_incompatible), the      *)
(* type-name renderer (type_str), the import bookkeeping (collect_imports, *)
(* convert_imports) and the per-parameter loop of generate_module.         *)
(*                                                                         *)
(* Python strings are tuples of one-character strings so that sorted()     *)
(* can be modelled by code-point order.  Type expressions are records      *)
(* [k, n, a]: k the kind of typing object, n its name, a its arguments.    *)
(* The typing objects behave as under CPython 3.11 (typing.Any is a class, *)
(* generic aliases answer __name__).                                       *)
(***************************************************************************)
EXTENDS Integers, Sequences, FiniteSets, TLC

(***************************************************************************)
(* Bounds                                                                  *)
(***************************************************************************)
MaxParams == 2
MaxClasses == 2

(***************************************************************************)
(* Strings                                                                 *)
(***************************************************************************)
\* the characters that occur in rendered text, in ascending code-point order
AsciiOrder ==
  <<" ", "\"", "#", "'", "(", ")", ",", ".",
    "0", "1", "2", "3", "4", "5", "6", "7", "8", "9", ":", "<", "=", ">",
    "A", "B", "C", "D", "E", "F", "G", "H", "I", "J", "K", "L", "M",
    "N", "O", "P", "Q", "R", "S", "T", "U", "V", "W", "X", "Y", "Z",
    "[", "]", "_",
    "a", "b", "c", "d", "e", "f", "g", "h", "i", "j", "k", "l", "m",
    "n", "o", "p", "q", "r", "s", "t", "u", "v", "w", "x", "y", "z",
    "{", "}">>

Ord(c) == CHOOSE i \in 1..Len(AsciiOrder) : AsciiOrder[i] = c

\* Python's str.__lt__
StrLess(x, y) ==
  \E i \in 1..(Len(x) + 1) :
     /\ i <= Len(y)
     /\ \A j \in 1..(i - 1) : x[j] = y[j]
     /\ \/ i = Len(x) + 1
        \/ Ord(x[i]) < Ord(y[i])

RECURSIVE insert_sorted(_, _)
insert_sorted(x, xs) ==
  IF xs = <<>> THEN <<x>>
  ELSE IF StrLess(x, Head(xs)) THEN <<x>> \o xs
  ELSE <<Head(xs)>> \o insert_sorted(x, Tail(xs))

\* sorted(list of str): ascending, duplicates kept, stable
RECURSIVE sorted(_)
sorted(xs) ==
  IF xs = <<>> THEN <<>>
  ELSE insert_sorted(xs[Len(xs)], sorted(SubSeq(xs, 1, Len(xs) - 1)))

\* sorted(list(a set of str)): ascending, one entry per element
RECURSIVE sorted_set(_)
sorted_set(S) ==
  IF S = {} THEN <<>>
  ELSE LET m == CHOOSE x \in S : \A y \in S : x = y \/ StrLess(x, y)
       IN  <<m>> \o sorted_set(S \ {m})

\* ", ".join(list of str)
RECURSIVE join(_)
join(xs) ==
  IF xs = <<>> THEN <<>>
  ELSE IF Len(xs) = 1 THEN xs[1]
  ELSE xs[1] \o <<",", " ">> \o join(Tail(xs))

(***************************************************************************)
(* Type expressions and the classes they mention                           *)
(***************************************************************************)
Cls(n)        == [k |-> "class",    n |-> n,          a |-> <<>>]
AnyT          == [k |-> "Any",      n |-> "Any",      a |-> <<>>]
Alias(n)      == [k |-> "alias",    n |-> n,          a |-> <<>>]
Gen(n, args)  == [k |-> "generic",  n |-> n,          a |-> args]
UnionT(args)  == [k |-> "Union",    n |-> "Union",    a |-> args]
LiteralT(vs)  == [k |-> "Literal",  n |-> "Literal",  a |-> vs]
CallableT(ps, ret) == [k |-> "Callable", n |-> "list",     a |-> ps \o <<ret>>]
CallableEllipsis(ret) == [k |-> "Callable", n |-> "ellipsis", a |-> <<ret>>]
EllipsisT     == [k |-> "ellipsis", n |-> "...",      a |-> <<>>]
TypeVarT      == [k |-> "TypeVar",  n |-> "T",        a |-> <<>>]
Special(n)    == [k |-> "special",  n |-> n,          a |-> <<>>]
\* a Literal's member value, known by the class of the value
Val(n)        == [k |-> "value",    n |-> n,          a |-> <<>>]

NoneType == Cls("NoneType")

\* cls.__mro__ (as names) of the classes of the model; typing.Any is a class
Mro ==
  [ int |-> {"int", "object"}, float |-> {"float", "object"},
    str |-> {"str", "object"}, bool |-> {"bool", "int", "object"},
    bytes |-> {"bytes", "object"}, NoneType |-> {"NoneType", "object"},
    tuple |-> {"tuple", "object"}, list |-> {"list", "object"},
    dict |-> {"dict", "object"}, set |-> {"set", "object"},
    type |-> {"type", "object"},
    Path |-> {"Path", "PurePath", "object"},
    PosixPath |-> {"PosixPath", "Path", "PurePosixPath", "PurePath", "object"},
    Color |-> {"Color", "Enum", "object"},
    IntColor |-> {"IntColor", "IntEnum", "int", "ReprEnum", "Enum", "object"},
    User |-> {"User", "object"},
    IncompatibleDataclass |-> {"IncompatibleDataclass", "object"},
    LibraryClass |-> {"LibraryClass", "object"},
    PeskySentinel |-> {"PeskySentinel", "object"},
    MyInt |-> {"MyInt", "int", "object"},
    MyList |-> {"MyList", "list", "object"},
    DataList |-> {"DataList", "list", "object"},
    OrderedDict |-> {"OrderedDict", "dict", "object"},
    Any |-> {"Any", "object"} ]

\* cls.__base__
Base ==
  [ c \in DOMAIN Mro |->
      CASE c = "bool" -> "int"
        [] c = "PosixPath" -> "Path"
        [] c = "Path" -> "PurePath"
        [] c = "Color" -> "Enum"
        [] c = "IntColor" -> "IntEnum"
        [] c = "MyInt" -> "int"
        [] c \in {"MyList", "DataList"} -> "list"
        [] c = "OrderedDict" -> "dict"
        [] OTHER -> "object" ]

\* cls.__module__
ModuleOf ==
  [ c \in DOMAIN Mro |->
      CASE c \in {"Path", "PosixPath"} -> <<"p", "a", "t", "h", "l", "i", "b">>
        [] c \in {"Color", "User", "IncompatibleDataclass", "LibraryClass",
                  "PeskySentinel", "MyInt", "MyList", "DataList",
                  "IntColor"} -> <<"t", "e", "s", "t", "s", ".", "t", "e", "s", "t", "_", "m", "o", "d", "u", "l", "e", "s">>
        [] c = "OrderedDict" -> <<"c", "o", "l", "l", "e", "c", "t", "i", "o", "n", "s">>
        [] c = "Any" -> <<"t", "y", "p", "i", "n", "g">>
        [] OTHER -> <<"b", "u", "i", "l", "t", "i", "n", "s">> ]

\* the names as text
Chars ==
  [ int |-> <<"i", "n", "t">>, float |-> <<"f", "l", "o", "a", "t">>, str |-> <<"s", "t", "r">>, bool |-> <<"b", "o", "o", "l">>,
    bytes |-> <<"b", "y", "t", "e", "s">>, NoneType |-> <<"N", "o", "n", "e", "T", "y", "p", "e">>, tuple |-> <<"t", "u", "p", "l", "e">>,
    list |-> <<"l", "i", "s", "t">>, dict |-> <<"d", "i", "c", "t">>, set |-> <<"s", "e", "t">>, type |-> <<"t", "y", "p", "e">>,
    Path |-> <<"P", "a", "t", "h">>,
    PosixPath |-> <<"P", "o", "s", "i", "x", "P", "a", "t", "h">>, Color |-> <<"C", "o", "l", "o", "r">>, User |-> <<"U", "s", "e", "r">>,
    IncompatibleDataclass |-> <<"I", "n", "c", "o", "m", "p", "a", "t", "i", "b", "l", "e", "D", "a", "t", "a", "c", "l", "a", "s", "s">>,
    LibraryClass |-> <<"L", "i", "b", "r", "a", "r", "y", "C", "l", "a", "s", "s">>, PeskySentinel |-> <<"P", "e", "s", "k", "y", "S", "e", "n", "t", "i", "n", "e", "l">>,
    MyInt |-> <<"M", "y", "I", "n", "t">>, MyList |-> <<"M", "y", "L", "i", "s", "t">>, OrderedDict |-> <<"O", "r", "d", "e", "r", "e", "d", "D", "i", "c", "t">>,
    DataList |-> <<"D", "a", "t", "a", "L", "i", "s", "t">>, IntColor |-> <<"I", "n", "t", "C", "o", "l", "o", "r">>,
    Any |-> <<"A", "n", "y">>, List |-> <<"L", "i", "s", "t">>, Dict |-> <<"D", "i", "c", "t">>, Tuple |-> <<"T", "u", "p", "l", "e">>,
    Type |-> <<"T", "y", "p", "e">>, Sequence |-> <<"S", "e", "q", "u", "e", "n", "c", "e">>, Callable |-> <<"C", "a", "l", "l", "a", "b", "l", "e">>,
    Union |-> <<"U", "n", "i", "o", "n">>, Optional |-> <<"O", "p", "t", "i", "o", "n", "a", "l">>, T |-> <<"T">> ]

\* isinstance(x, type): classes, and typing.Any
is_type(t) == t.k \in {"class", "Any"}

\* a types.GenericAlias, a builtin class with parameters (list[str]); the
\* generics of typing (List[str]) are none
is_generic_alias(t) ==
  t.k = "generic" /\ t.n \in {"list", "dict", "tuple", "type", "set"}

\* issubclass takes t as its first argument without TypeError: a class, or
\* an object that answers __bases__, which a types.GenericAlias does with
\* the __bases__ of its origin
is_class(t) == is_type(t) \/ is_generic_alias(t)

\* issubclass(t, bases) for a t it accepts; a types.GenericAlias is not
\* its origin, so only the bases of the origin are looked at
issubclass(t, bases) ==
  IF is_generic_alias(t) THEN (Mro[t.n] \ {t.n}) \cap bases # {}
  ELSE Mro[t.n] \cap bases # {}

\* dataclasses; OmegaConf.structured accepts User and DataList (a dataclass
\* without fields that is a subclass of list) and rejects
\* IncompatibleDataclass (its field is a LibraryClass)
is_structured_config(t) ==
  t.k = "class" /\ t.n \in {"User", "IncompatibleDataclass", "DataList"}
structured_raises_ValidationError(t) == t.n = "IncompatibleDataclass"

(***************************************************************************)
(* omegaconf._utils and typing_inspect, as is_incompatible uses them       *)
(***************************************************************************)
is_union_annotation(t) == t.k = "Union"

\* the members of a sequence that are not NoneType, in order
RECURSIVE without_none(_)
without_none(args) ==
  IF args = <<>> THEN <<>>
  ELSE IF Head(args) = NoneType THEN without_none(Tail(args))
  ELSE <<Head(args)>> \o without_none(Tail(args))

has_none(args) == \E i \in 1..Len(args) : args[i] = NoneType

\* <<is_optional, inner type>>
_resolve_optional(t) ==
  IF is_union_annotation(t) THEN
     LET args == without_none(t.a) IN
     IF Len(args) = 1 THEN <<has_none(t.a), args[1]>>
     ELSE <<has_none(t.a), UnionT(args)>>
  ELSE IF t = AnyT THEN <<TRUE, AnyT>>
  ELSE IF t = NoneType THEN <<TRUE, NoneType>>
  ELSE <<FALSE, t>>

is_literal_type(t) == t.k = "Literal"

is_callable_type(t) == t.k = "Callable" \/ t = Alias("Callable")

\* getattr(t, "__origin__", None), as a name
origin(t) ==
  CASE t.k \in {"generic", "alias"} ->
         (CASE t.n \in {"List", "list"} -> "list"
            [] t.n \in {"Dict", "dict"} -> "dict"
            [] t.n \in {"Tuple", "tuple"} -> "tuple"
            [] t.n \in {"Type", "type"} -> "type"
            [] OTHER -> t.n)
    [] t.k = "Union" -> "Union"
    [] t.k = "Literal" -> "Literal"
    [] t.k = "Callable" -> "Callable"
    [] OTHER -> "None"

is_list_annotation(t) ==
  t \in {Cls("list"), Alias("List")} \/ origin(t) = "list"

is_dict_annotation(t) ==
  \/ t \in {Cls("dict"), Alias("Dict")}
  \/ origin(t) = "dict"
  \/ (t.k = "class" /\ Base[t.n] = "dict")

get_list_element_type(t) ==
  IF t # Alias("List") /\ t.k = "generic" THEN t.a[1] ELSE AnyT

get_dict_key_value_types(t) ==
  IF t = Alias("Dict") THEN <<AnyT, AnyT>>
  ELSE IF t.k = "generic" THEN <<t.a[1], t.a[2]>>
  ELSE <<AnyT, AnyT>>

\* BUILTIN_VALUE_TYPES, Enum subclasses and Path subclasses; get_type_of
\* turns anything that is not a class into the class of the typing object
is_primitive_type_annotation(t) ==
  /\ is_type(t)
  /\ \/ issubclass(t, {"Enum", "Path"})
     \/ t.n \in {"int", "float", "bool", "str", "bytes", "NoneType"}

(***************************************************************************)
(* configen.utils.is_tuple_annotation                                      *)
(***************************************************************************)
is_tuple_annotation(t) == origin(t) = "tuple"

(***************************************************************************)
(* configen.configen.is_incompatible                                       *)
(* The result is "False" (compatible), "True" (incompatible) or the name   *)
(* of the exception that leaves the function.  No callee raises            *)
(* ValidationError inside the try block, so the handler of line 142 never  *)
(* runs; the one of line 150 is structured_raises_ValidationError.         *)
(***************************************************************************)
raised(r) == r \notin {"False", "True"}

\* lines 130-137: any(not (primitive or Literal) for arg in args)
union_incompatible_no_literal(args) ==
  IF \E i \in 1..Len(args) : ~is_primitive_type_annotation(args[i])
  THEN "True" ELSE "False"
union_incompatible(args) ==
  IF \E i \in 1..Len(args) :
        ~(is_primitive_type_annotation(args[i]) \/ is_literal_type(args[i]))
  THEN "True" ELSE "False"

RECURSIVE is_incompatible(_)
RECURSIVE tuple_any(_, _)

\* line 124: any(arg is not ... and is_incompatible(arg) for arg in args)
tuple_any(args, i) ==
  IF i > Len(args) THEN "False"
  ELSE IF args[i] = EllipsisT THEN tuple_any(args, i + 1)
  ELSE LET r == is_incompatible(args[i]) IN
       IF r = "False" THEN tuple_any(args, i + 1) ELSE r

is_incompatible(t) ==
  LET type_ == _resolve_optional(t)[2] IN
  IF type_ \in {NoneType, Cls("tuple"), Cls("list"), Cls("dict"), Cls("Path")}
  THEN "False"
  ELSE IF is_literal_type(type_) THEN "False"
  ELSE IF is_callable_type(type_) THEN "True"
  ELSE IF is_list_annotation(type_)
  THEN is_incompatible(get_list_element_type(type_))
  ELSE IF is_dict_annotation(type_)
  THEN LET kvt == get_dict_key_value_types(type_) IN
       IF ~is_class(kvt[1]) THEN "TypeError"
       ELSE IF ~issubclass(kvt[1], {"str", "Enum"}) THEN "True"
       ELSE is_incompatible(kvt[2])
  ELSE IF is_tuple_annotation(type_)
  THEN IF type_.k = "alias" THEN "AttributeError"
       ELSE tuple_any(type_.a, 1)
  ELSE IF is_union_annotation(type_) THEN union_incompatible(type_.a)
  ELSE IF origin(type_) = "type"
  THEN IF type_.a = <<>> THEN "IndexError"
       ELSE is_incompatible(type_.a[1])
  ELSE IF type_ = AnyT THEN "False"
  ELSE IF ~is_class(type_) THEN "TypeError"
  ELSE IF issubclass(type_, {"int", "float", "str", "bool", "Enum"})
  THEN "False"
  ELSE IF is_structured_config(type_)
  THEN IF structured_raises_ValidationError(type_) THEN "True" ELSE "False"
  ELSE "True"

(***************************************************************************)
(* configen.utils._resolve_literal and type_str                            *)
(* A Python set of classes is iterated in an order fixed by the hashes of  *)
(* the classes (their addresses) and by the order in which the set         *)
(* received them, not by the program.  Each call of _resolve_literal       *)
(* builds its own set: sets that received the same classes in the same     *)
(* sequence iterate alike in one run, any two others need not.  The        *)
(* parameter order gives, for each sequence in which a set received its    *)
(* classes, the sequence in which it yields them.                          *)
(***************************************************************************)
\* the sequences that list each class of S once
RECURSIVE Orders(_)
Orders(S) ==
  IF S = {} THEN {<<>>}
  ELSE UNION { { <<c>> \o o : o \in Orders(S \ {c}) } : c \in S }

\* s without the repetitions of the members of seen and of its own
RECURSIVE first_occurrences(_, _)
first_occurrences(s, seen) ==
  IF s = <<>> THEN <<>>
  ELSE IF Head(s) \in seen THEN first_occurrences(Tail(s), seen)
  ELSE <<Head(s)>> \o first_occurrences(Tail(s), seen \cup {Head(s)})

\* set(type(value) for value in values): the classes in the sequence in
\* which the set of the Literal t receives them
insertion(t) ==
  first_occurrences([i \in 1..Len(t.a) |-> t.a[i].n], {})

\* tuple(value_types): the classes of the set, as the set iterates them
RECURSIVE iterate_set(_, _)
iterate_set(S, order) ==
  IF order = <<>> THEN <<>>
  ELSE IF Head(order) \in S THEN <<Cls(Head(order))>> \o iterate_set(S, Tail(order))
  ELSE iterate_set(S, Tail(order))

\* a Literal whose values are of more than one class, anywhere in t
RECURSIVE has_mixed_literal(_)
has_mixed_literal(t) ==
  IF t.k = "Literal" THEN Cardinality({ t.a[i].n : i \in 1..Len(t.a) }) > 1
  ELSE \E i \in 1..Len(t.a) : has_mixed_literal(t.a[i])

\* the sets of more than one class that type_str(t) builds, each known by
\* the sequence in which it receives its classes
RECURSIVE literal_insertions(_)
literal_insertions(t) ==
  IF t.k = "Literal"
  THEN (IF Len(insertion(t)) > 1 THEN {insertion(t)} ELSE {})
  ELSE UNION { literal_insertions(t.a[i]) : i \in 1..Len(t.a) }

\* the ways in which the sets of new can iterate, added to the orders met
RECURSIVE extend_orders(_, _)
extend_orders(met, new) ==
  IF new = {} THEN {met}
  ELSE LET s == CHOOSE x \in new : TRUE IN
       UNION { extend_orders(met @@ (s :> o), new \ {s}) :
                 o \in Orders({ s[i] : i \in 1..Len(s) }) }

\* the iteration orders that type_str(t) can meet in a run that has met
\* the orders met
met_orders(met, t) ==
  extend_orders(met, literal_insertions(t) \ DOMAIN met)

\* the iteration orders that type_str(t) can meet
iteration_orders(t) == met_orders(<<>>, t)

_resolve_literal(t, order) ==
  LET value_types == { t.a[i].n : i \in 1..Len(t.a) } IN
  IF Cardinality(value_types) = 1
  THEN Cls(CHOOSE c \in value_types : TRUE)
  ELSE UnionT(iterate_set(value_types, order[insertion(t)]))

\* what type_str reads as the name: __name__ of a class or typing object;
\* typing names a two-member Union with None "Optional"
type_name(t) ==
  CASE t.k = "Union" ->
         IF Len(t.a) = 2 /\ has_none(t.a) THEN <<"O", "p", "t", "i", "o", "n", "a", "l">> ELSE <<"U", "n", "i", "o", "n">>
    [] t.k = "Callable" -> <<"C", "a", "l", "l", "a", "b", "l", "e">>
    [] OTHER -> Chars[t.n]

\* hasattr(type_, "__args__")
has_args(t) == t.k \in {"generic", "Union", "Callable"}

\* type_str raises TypeError when it iterates the Ellipsis of Callable[..., R]
RECURSIVE type_str_raises(_)
type_str_raises(t) ==
  LET type_ == _resolve_optional(t)[2] IN
  /\ type_ # AnyT
  /\ type_ # EllipsisT
  /\ has_args(type_)
  /\ \/ (type_.k = "Callable" /\ type_.n = "ellipsis")
     \/ \E i \in 1..Len(type_.a) : type_str_raises(type_.a[i])

RECURSIVE type_str(_, _)
RECURSIVE type_str_each(_, _)

\* [type_str(inner_type) for inner_type in args]
type_str_each(args, order) ==
  IF args = <<>> THEN <<>>
  ELSE <<type_str(Head(args), order)>> \o type_str_each(Tail(args), order)

type_str(t, order) ==
  LET ro == _resolve_optional(t) IN
  IF ro[2] = AnyT THEN <<"A", "n", "y">>
  ELSE IF ro[2] = EllipsisT THEN <<".", ".", ".">>
  ELSE
    LET type_ == IF is_literal_type(ro[2])
                 THEN _resolve_literal(ro[2], order) ELSE ro[2]
        name == type_name(type_)
        args == type_.a
        ret ==
          IF ~has_args(type_) THEN name
          ELSE IF name = <<"C", "a", "l", "l", "a", "b", "l", "e">>
          THEN name \o <<"[", "[">>
                 \o join(type_str_each(SubSeq(args, 1, Len(args) - 1), order))
                 \o <<"]", ",", " ">> \o type_str(args[Len(args)], order) \o <<"]">>
          ELSE IF name = <<"U", "n", "i", "o", "n">>
          THEN name \o <<"[">> \o join(sorted(type_str_each(args, order))) \o <<"]">>
          ELSE name \o <<"[">> \o join(type_str_each(args, order)) \o <<"]">>
    IN IF ro[1] THEN <<"O", "p", "t", "i", "o", "n", "a", "l", "[">> \o ret \o <<"]">> ELSE ret

(***************************************************************************)
(* configen.utils.collect_imports and convert_imports                      *)
(***************************************************************************)
is_union_type(t) == t.k = "Union" \/ t = Special("Union")

\* the types collect_imports(imports, type_) adds to imports
RECURSIVE collect_imports(_)
collect_imports(type_) ==
  IF is_literal_type(type_) THEN {}
  ELSE
    LET ro == _resolve_optional(type_)
        of_args ==
          UNION { collect_imports(type_.a[i]) :
                    i \in { j \in 1..Len(type_.a) : type_.a[j] # EllipsisT } }
        imports_ ==
          IF ro[1] /\ type_ # AnyT
          THEN {Special("Optional")}
                 \cup (IF is_union_type(ro[2]) THEN {Special("Union")} ELSE {})
          ELSE IF is_union_type(type_) THEN {Special("Union")}
          ELSE {type_}
    IN of_args \cup imports_

\* get_args of Callable[[P, ...], R] starts with a list, which collect_imports
\* cannot add to a set: TypeError (unhashable type)
RECURSIVE collect_imports_raises(_)
collect_imports_raises(type_) ==
  /\ ~is_literal_type(type_)
  /\ \/ (type_.k = "Callable" /\ type_.n = "list")
     \/ \E i \in 1..Len(type_.a) : collect_imports_raises(type_.a[i])

\* what collect_imports(imports, type_) has added to imports when the
\* exception leaves it: the arguments before the one that raises are done,
\* and the update of type_ itself is not reached
RECURSIVE collect_imports_partial(_)
collect_imports_partial(type_) ==
  IF type_.k = "Callable" /\ type_.n = "list" THEN {}
  ELSE
    LET raising == { i \in 1..Len(type_.a) : collect_imports_raises(type_.a[i]) }
        first == CHOOSE i \in raising : \A j \in raising : i <= j
    IN UNION { collect_imports(type_.a[j]) :
                 j \in { i \in 1..(first - 1) : type_.a[i] # EllipsisT } }
         \cup collect_imports_partial(type_.a[first])

\* lines 90-105: the name the import statement gives
classname(import_) ==
  IF import_ = AnyT THEN <<"A", "n", "y">>
  ELSE IF import_.k = "special" THEN Chars[import_.n]
  ELSE IF origin(import_) = "list" THEN <<"L", "i", "s", "t">>
  ELSE IF origin(import_) = "tuple" THEN <<"T", "u", "p", "l", "e">>
  ELSE IF origin(import_) = "dict" THEN <<"D", "i", "c", "t">>
  ELSE type_name(import_)

\* import_.__module__
module_of(import_) ==
  CASE import_.k \in {"class", "Any"} -> ModuleOf[import_.n]
    [] is_generic_alias(import_) -> <<"b", "u", "i", "l", "t", "i", "n", "s">>
    [] import_.k = "TypeVar" -> <<"t", "e", "s", "t", "s", ".", "t", "e", "s", "t", "_", "m", "o", "d", "u", "l", "e", "s">>
    [] OTHER -> <<"t", "y", "p", "i", "n", "g">>

\* lines 106-112
is_imported(import_) ==
  /\ \/ ~is_primitive_type_annotation(import_)
     \/ issubclass(import_, {"Enum"})
     \/ import_ = Cls("Path")
  /\ module_of(import_) # <<"b", "u", "i", "l", "t", "i", "n", "s">>

import_line(module, name) == <<"f", "r", "o", "m", " ">> \o module \o <<" ", "i", "m", "p", "o", "r", "t", " ">> \o name

convert_imports(imports, string_imports) ==
  LET tmp == { import_line(module_of(i), classname(i)) :
                 i \in { j \in imports : is_imported(j) } }
  IN sorted_set(tmp \cup string_imports)

(***************************************************************************)
(* The type expressions the classifier is applied to                       *)
(***************************************************************************)
ClassTypes ==
  { Cls(c) : c \in {"int", "float", "str", "bool", "bytes", "NoneType",
                    "tuple", "list", "dict", "Path", "PosixPath", "Color",
                    "User", "IncompatibleDataclass", "LibraryClass",
                    "PeskySentinel", "MyInt", "MyList", "OrderedDict",
                    "DataList", "IntColor"} }

LiteralTypes ==
  { LiteralT(<<Val("str")>>), LiteralT(<<Val("str"), Val("NoneType")>>),
    LiteralT(<<Val("str"), Val("Color"), Val("str")>>),
    LiteralT(<<Val("int"), Val("str"), Val("str"), Val("Color")>>),
    LiteralT(<<Val("int"), Val("NoneType")>>) }

NonClassTypes ==
  { Gen("Sequence", <<Cls("int")>>), Alias("Sequence"), TypeVarT,
    Gen("set", <<Cls("int")>>) }

CallableTypes ==
  { Alias("Callable"), CallableT(<<Cls("int")>>, Cls("str")),
    CallableEllipsis(AnyT) }

\* list, dict and tuple without parameters, in the typing spelling
BareAliases == { Alias("List"), Alias("Dict"), Alias("Tuple") }
\* ... and in the builtin spelling
BareBuiltins == { Cls("list"), Cls("dict"), Cls("tuple") }

AtomTypes ==
  ClassTypes \cup LiteralTypes \cup NonClassTypes \cup CallableTypes
    \cup BareAliases \cup {AnyT, Alias("Type")}

ElementTypes ==
  { Cls("int"), Cls("str"), Cls("Color"), Cls("User"), Cls("LibraryClass"),
    Cls("bytes"), NoneType, AnyT, Gen("Sequence", <<Cls("int")>>),
    LiteralT(<<Val("str")>>), CallableT(<<Cls("int")>>, Cls("str")),
    Alias("Dict"), Alias("Tuple"), Cls("dict"),
    Gen("Dict", <<Cls("str"), Cls("LibraryClass")>>),
    Gen("List", <<Cls("int")>>),
    UnionT(<<Cls("int"), Cls("User")>>), UnionT(<<Cls("int"), NoneType>>) }

KeyTypes ==
  { Cls("str"), Cls("Color"), Cls("int"), Cls("bool"), Cls("bytes"),
    Cls("LibraryClass"), AnyT, UnionT(<<Cls("str"), Cls("int")>>),
    UnionT(<<Cls("str"), NoneType>>), LiteralT(<<Val("str")>>),
    Gen("List", <<Cls("str")>>), Gen("list", <<Cls("str")>>),
    Gen("tuple", <<Cls("int"), Cls("int")>>) }

ValueTypes ==
  { Cls("str"), Cls("int"), Cls("User"), Cls("LibraryClass"),
    Cls("IncompatibleDataclass"), AnyT, Gen("Sequence", <<Cls("int")>>),
    Gen("List", <<Cls("LibraryClass")>>), Gen("List", <<Cls("str")>>),
    UnionT(<<Cls("str"), NoneType>>), Alias("Tuple") }

\* Union members; a Union holds them in the order of this sequence
UnionMembers ==
  << Cls("int"), Cls("float"), Cls("str"), Cls("bool"), Cls("bytes"),
     Cls("Color"), Cls("Path"), Cls("PosixPath"), Cls("MyInt"), Cls("User"),
     Cls("LibraryClass"), Cls("dict"), AnyT, TypeVarT,
     Gen("List", <<Cls("str")>>), Gen("Sequence", <<Cls("int")>>),
     LiteralT(<<Val("str")>>), LiteralT(<<Val("Color"), Val("str")>>),
     CallableT(<<Cls("int")>>, Cls("str")) >>

UnionTypes ==
  LET N == Len(UnionMembers) IN
       { UnionT(<<UnionMembers[i], UnionMembers[j]>>) :
            i \in 1..N, j \in 1..N } \ { UnionT(<<UnionMembers[i], UnionMembers[i]>>) : i \in 1..N }

\* Optional[Union[...]]: the same members and None
OptionalUnionTypes ==
  { UnionT(u.a \o <<NoneType>>) :
      u \in { v \in UnionTypes : v.a[1] \in {Cls("int"), Cls("str"), Cls("Color")} } }

OptionalTypes == { UnionT(<<t, NoneType>>) : t \in AtomTypes \ {NoneType, AnyT} }

ListTypes == { Gen(n, <<t>>) : n \in {"List", "list"}, t \in ElementTypes }

DictTypes ==
  { Gen(n, <<key, v>>) : n \in {"Dict", "dict"}, key \in KeyTypes, v \in ValueTypes }

TupleTypes ==
  { Gen(n, <<t, u>>) : n \in {"Tuple", "tuple"},
      t \in {Cls("float"), Cls("LibraryClass"), Gen("Sequence", <<Cls("int")>>)},
      u \in {Cls("float"), Cls("LibraryClass"), Gen("Sequence", <<Cls("int")>>),
             EllipsisT} }

\* two Literals whose sets receive the same classes in different sequences
TwoLiteralTypes ==
  { Gen("Tuple", <<LiteralT(<<Val("Color"), Val("NoneType")>>),
                   LiteralT(<<Val("NoneType"), Val("Color")>>)>>),
    Gen("Tuple", <<LiteralT(<<Val("Color"), Val("NoneType")>>),
                   LiteralT(<<Val("NoneType"), Val("Color")>>),
                   Cls("LibraryClass")>>),
    Gen("Dict", <<Cls("str"),
                  Gen("Tuple", <<LiteralT(<<Val("Color"), Val("NoneType")>>),
                                 LiteralT(<<Val("Color"), Val("NoneType"),
                                            Val("Color")>>)>>)>>) }

TypeTypes == { Gen(n, <<t>>) : n \in {"Type", "type"}, t \in ElementTypes }

Types ==
  AtomTypes \cup UnionTypes \cup OptionalUnionTypes \cup OptionalTypes
    \cup ListTypes \cup DictTypes \cup TupleTypes \cup TypeTypes
    \cup TwoLiteralTypes

(***************************************************************************)
(* Constructor parameters: the declared type as get_type_hints resolved it *)
(* (Absent when the parameter has no annotation) and the default value     *)
(* (NoDefault for inspect.Parameter.empty).  A default value is known by   *)
(* its class, by the text str() and format() give for it and, when it is a *)
(* member of an Enum, by the name of the member.                           *)
(***************************************************************************)
Absent == [k |-> "absent", n |-> "_empty", a |-> <<>>]

Default(cls, text) == [cls |-> cls, text |-> text, name |-> <<>>]

\* a member of an Enum; format() of a member of a plain Enum gives
\* Class.MEMBER, the one of a member of an IntEnum gives its value
EnumMember(cls, name, text) == [cls |-> cls, text |-> text, name |-> name]

\* Enum.__str__(default_): the name of the class and the one of the member
Enum_str(default_) == Chars[default_.cls] \o <<".">> \o default_.name
NoDefault == Default("_empty", <<"<", "c", "l", "a", "s", "s", " ", "'", "i", "n", "s", "p", "e", "c", "t", ".", "_", "e", "m", "p", "t", "y", "'", ">">>)

isinstance(default_, cls) ==
  default_ # NoDefault /\ cls \in Mro[default_.cls]

\* type(default_)
type_of(default_) == Cls(default_.cls)

Parameter(name, type_str_, default) ==
  [name |-> name, type_str |-> type_str_, default |-> default]

\* the name of the i-th parameter of the signature
param_name(i) == <<"p">> \o <<AsciiOrder[Ord("0") + i]>>

(***************************************************************************)
(* The module configuration, its synthetic flags and the signature of a    *)
(* class                                                                   *)
(***************************************************************************)
\* hydra's ConvertMode: the name of each member
ConvertModeName == [NONE |-> <<"N", "O", "N", "E">>, PARTIAL |-> <<"P", "A", "R", "T", "I", "A", "L">>, ALL |-> <<"A", "L", "L">>]

\* str() of a bool
BoolStr == [True |-> <<"T", "r", "u", "e">>, False |-> <<"F", "a", "l", "s", "e">>]

\* a ModuleConf: a flag that is not configured is "None"; classes holds
\* the signature of cls.__init__ of each class
ModuleConf(convert, recursive) ==
  [name |-> <<"m", "o", "d">>,
   default_flags |-> [_convert_ |-> convert, _recursive_ |-> recursive],
   classes |-> <<>>]

\* lines 159-180
get_default_flags(module_) ==
  (IF module_.default_flags._convert_ # "None"
   THEN <<Parameter(<<"_", "c", "o", "n", "v", "e", "r", "t", "_">>, <<"s", "t", "r">>,
                    <<"\"">> \o ConvertModeName[module_.default_flags._convert_] \o <<"\"">>)>>
   ELSE <<>>)
  \o (IF module_.default_flags._recursive_ # "None"
      THEN <<Parameter(<<"_", "r", "e", "c", "u", "r", "s", "i", "v", "e", "_">>, <<"b", "o", "o", "l">>,
                       BoolStr[module_.default_flags._recursive_])>>
      ELSE <<>>)

ClassInfo(module_name, name, parameters, target) ==
  [module |-> module_name, name |-> name, parameters |-> parameters,
   target |-> target]

\* the name of the i-th class of module.classes
class_name(i) == <<"C">> \o <<AsciiOrder[Ord("0") + i]>>

\* an inspect.Parameter of the signature with its resolved annotation
SigParameter(name, kind, hint, default_) ==
  [name |-> name, kind |-> kind, hint |-> hint, default |-> default_]

skipped_only_self(p) == p.name = <<"s", "e", "l", "f">>

\* lines 200-204: self, *args and **kwargs are no attributes
skipped(p) ==
  p.name = <<"s", "e", "l", "f">> \/ p.kind \in {"VAR_POSITIONAL", "VAR_KEYWORD"}

(***************************************************************************)
(* configen.configen.generate_module, the body of the loop over            *)
(* sig.parameters (lines 205-252)                                          *)
(***************************************************************************)
\* line 208
missing_value(default_) == default_ = NoDefault

\* line 209: "False", "True" or the exception is_incompatible raises
incompatible_value_type(default_) ==
  IF missing_value(default_) THEN "False"
  ELSE is_incompatible(type_of(default_))

\* line 210
missing_annotation_type(hint) == hint = Absent

\* line 211
incompatible_annotation_type(hint) ==
  IF missing_annotation_type(hint) THEN "False" ELSE is_incompatible(hint)

enum_import_none(default_) == {}

\* lines 213-217: the import an Enum default asks for
enum_import(default_) ==
  IF isinstance(default_, "Enum")
  THEN {import_line(ModuleOf[default_.cls], Chars[default_.cls])}
  ELSE {}

\* line 219: the declared type is replaced
degraded(hint) ==
  missing_annotation_type(hint) \/ incompatible_annotation_type(hint) = "True"

effective_type_only_missing(hint) ==
  IF missing_annotation_type(hint) THEN AnyT ELSE hint

\* lines 219-221: the type that is recorded
effective_type(hint) == IF degraded(hint) THEN AnyT ELSE hint

quoted_default_only(type_, default_) == type_of(default_) = Cls("str")

\* line 224: the default is wrapped in quotes
quoted(type_, default_) ==
  type_ = Cls("str") \/ type_of(default_) = Cls("str")

render_default_no_dict_factory(type_, default_) ==
  IF missing_value(default_) THEN default_.text
  ELSE IF type_ = Cls("str") \/ type_of(default_) = Cls("str")
  THEN <<"\"">> \o default_.text \o <<"\"">>
  ELSE IF isinstance(default_, "list")
  THEN <<"f", "i", "e", "l", "d", "(", "d", "e", "f", "a", "u", "l", "t", "_", "f", "a", "c", "t", "o", "r", "y", "=", "l", "a", "m", "b", "d", "a", ":", " ">> \o default_.text \o <<")">>
  ELSE default_.text

\* lines 223-229: the default as text
render_default(type_, default_) ==
  IF missing_value(default_) THEN default_.text
  ELSE IF quoted(type_, default_)
  THEN <<"\"">> \o default_.text \o <<"\"">>
  ELSE IF isinstance(default_, "list")
  THEN <<"f", "i", "e", "l", "d", "(", "d", "e", "f", "a", "u", "l", "t", "_", "f", "a", "c", "t", "o", "r", "y", "=", "l", "a", "m", "b", "d", "a", ":", " ">> \o default_.text \o <<")">>
  ELSE IF isinstance(default_, "dict")
  THEN <<"f", "i", "e", "l", "d", "(", "d", "e", "f", "a", "u", "l", "t", "_", "f", "a", "c", "t", "o", "r", "y", "=", "l", "a", "m", "b", "d", "a", ":", " ">> \o default_.text \o <<")">>
  ELSE default_.text

missing_default_value_only(default_) == missing_value(default_)

\* line 231
missing_default(default_) ==
  IF incompatible_value_type(default_) = "True" THEN TRUE
  ELSE missing_value(default_)

\* lines 224-229 have replaced default_ by a str
replaced(type_, default_) ==
  /\ ~missing_value(default_)
  /\ \/ quoted(type_, default_)
     \/ isinstance(default_, "list")
     \/ isinstance(default_, "dict")

\* lines 234-239: MISSING replaces the default; a default that is still the
\* Enum member becomes Enum.__str__ of it
final_default(type_, default_) ==
  IF missing_default(default_) THEN <<"M", "I", "S", "S", "I", "N", "G">>
  ELSE IF ~replaced(type_, default_) /\ isinstance(default_, "Enum")
  THEN Enum_str(default_)
  ELSE render_default(type_, default_)

\* lines 241-244: the comment that names the degraded type
with_comment(text, hint, default_, order) ==
  IF incompatible_annotation_type(hint) = "True"
  THEN text \o <<" ", " ", "#", " ">> \o type_str(hint, order)
  ELSE IF incompatible_value_type(default_) = "True"
  THEN text \o <<" ", " ", "#", " ">> \o type_str(type_of(default_), order)
  ELSE text

\* the exception that leaves the loop body, "" when there is none
body_raises(hint, default_) ==
  IF raised(incompatible_value_type(default_))
  THEN incompatible_value_type(default_)
  ELSE IF raised(incompatible_annotation_type(hint))
  THEN incompatible_annotation_type(hint)
  ELSE IF collect_imports_raises(effective_type(hint)) THEN "TypeError"
  ELSE IF incompatible_annotation_type(hint) = "True" /\ type_str_raises(hint)
  THEN "TypeError"
  ELSE IF type_str_raises(effective_type(hint)) THEN "TypeError"
  ELSE ""

\* the Parameter that line 246 appends
built_parameter(name, hint, default_, order) ==
  LET type_ == effective_type(hint) IN
  Parameter(name,
            type_str(type_, order),
            with_comment(final_default(type_, default_), hint, default_, order))

\* what the body adds to imports (lines 221 and 232)
body_imports(hint) ==
  LET type_ == effective_type(hint) IN
  (IF degraded(hint) THEN collect_imports(AnyT) ELSE {}) \cup collect_imports(type_)

\* what the body adds to string_imports (lines 217 and 236)
body_string_imports(default_) ==
  enum_import(default_)
    \cup (IF missing_default(default_)
          THEN {import_line(<<"o", "m", "e", "g", "a", "c", "o", "n", "f">>, <<"M", "I", "S", "S", "I", "N", "G">>)} ELSE {})


\* what the body has added to imports when an exception leaves it: nothing
\* at lines 209 and 211, the part of line 232 that was done, and all of it
\* when type_str raises at line 242 or 249
raised_imports(hint, default_) ==
  IF raised(incompatible_value_type(default_))
       \/ raised(incompatible_annotation_type(hint))
  THEN {}
  ELSE IF collect_imports_raises(effective_type(hint))
  THEN (IF degraded(hint) THEN collect_imports(AnyT) ELSE {})
         \cup collect_imports_partial(effective_type(hint))
  ELSE body_imports(hint)

\* what the body has added to string_imports when an exception leaves it:
\* line 217 is done when line 232 raises, line 236 as well when type_str does
raised_string_imports(hint, default_) ==
  IF raised(incompatible_value_type(default_))
       \/ raised(incompatible_annotation_type(hint))
  THEN {}
  ELSE IF collect_imports_raises(effective_type(hint))
  THEN enum_import(default_)
  ELSE body_string_imports(default_)
(***************************************************************************)
(* The parameters generate_module is run on                                *)
(***************************************************************************)
GenHints ==
  { Absent, Cls("int"), Cls("str"), AnyT, Cls("LibraryClass"),
    Gen("List", <<Cls("str")>>),
    Gen("Dict", <<UnionT(<<Cls("str"), Cls("int")>>), Cls("str")>>),
    CallableEllipsis(AnyT) }

EmptyList == Default("list", <<"[", "]">>)
EmptyDict == Default("dict", <<"{", "}">>)
ColorRED  == EnumMember("Color", <<"R", "E", "D">>, <<"C", "o", "l", "o", "r", ".", "R", "E", "D">>)
\* the member RED = 1 of an IntEnum
IntColorRED == EnumMember("IntColor", <<"R", "E", "D">>, <<"1">>)
Pesky     == Default("PeskySentinel", <<"<", "I", " ", "a", "m", " ", "a", " ", "p", "e", "s", "k", "y", " ", "s", "e", "n", "t", "i", "n", "e", "l", ">">>)
\* an instance of a plain subclass of list
MyListObj == Default("MyList", <<"[", "]">>)
\* an instance of a dataclass that is a subclass of list
DataListObj == Default("DataList", <<"D", "a", "t", "a", "L", "i", "s", "t", "(", ")">>)

GenDefaults ==
  { NoDefault, Default("int", <<"1">>), Default("str", <<"a">>),
    Default("NoneType", <<"N", "o", "n", "e">>), EmptyList, ColorRED, IntColorRED, Pesky }

\* ... and the defaults that are lists, dicts or members of an Enum, with
\* the declared types they are met under
ContainerHints ==
  { Absent, Cls("str"), Cls("LibraryClass"), CallableEllipsis(AnyT) }

ContainerDefaults ==
  { EmptyList, EmptyDict, MyListObj, DataListObj, ColorRED, IntColorRED }

\* ... and the ones two runs are compared on
DetHints ==
  { Absent, Cls("LibraryClass"), Cls("Color"),
    UnionT(<<Cls("str"), Cls("int")>>),
    UnionT(<<Cls("str"), Cls("Color"), Cls("bool"), NoneType>>),
    LiteralT(<<Val("str"), Val("str")>>),
    LiteralT(<<Val("str"), Val("Color"), Val("str")>>),
    LiteralT(<<Val("Color"), Val("NoneType")>>),
    LiteralT(<<Val("int"), Val("str"), Val("str"), Val("Color")>>),
    Gen("Tuple", <<LiteralT(<<Val("Color"), Val("NoneType")>>),
                   LiteralT(<<Val("NoneType"), Val("Color")>>)>>),
    UnionT(<<LiteralT(<<Val("str"), Val("Color")>>), Cls("int")>>) }

DetDefaults == { NoDefault, ColorRED, Default("str", <<"a">>) }

(***************************************************************************)
(* State                                                                   *)
(***************************************************************************)
VARIABLES
  arg,             \* the type expression handed to is_incompatible
  verdict,         \* what is_incompatible(arg) returned or raised
  pc,              \* where generate_module is
  error,           \* the exception that left generate_module, "" if none
  sig,             \* the parameters of cls.__init__ iterated so far
  params,          \* generate_module: params
  imports,         \* generate_module: imports
  string_imports,  \* generate_module: string_imports
  import_list,     \* what convert_imports returned to the template
  rerun,           \* params, imports, string_imports and import_list of a
                   \* second run of generate_module on the same class
  module,          \* generate_module: module (default_flags and the classes
                   \* hydra.utils.get_class found for module.classes so far)
  default_flags,   \* generate_module: default_flags
  classes_map,     \* generate_module: classes_map, in insertion order
  set_orders       \* the iteration orders the sets of _resolve_literal have
                   \* shown in this run

vars == <<arg, verdict, pc, error, sig, params, imports, string_imports,
          import_list, rerun, module, default_flags, classes_map,
          set_orders>>

mod_vars == <<module, default_flags, classes_map>>

gen_vars == <<pc, error, sig, params, imports, string_imports, import_list,
              rerun, mod_vars, set_orders>>

NoRun ==
  [params |-> <<>>, imports |-> {}, string_imports |-> {}, import_list |-> <<>>,
   set_orders |-> <<>>]

\* a module whose default_flags are both None
NoFlags == ModuleConf("None", "None")

(***************************************************************************)
(* The classifier applied to one type expression                           *)
(***************************************************************************)
InitClassify ==
  /\ arg \in Types
  /\ verdict = "pending"
  /\ pc = "idle"
  /\ error = ""
  /\ sig = <<>>
  /\ params = <<>>
  /\ imports = {}
  /\ string_imports = {}
  /\ import_list = <<>>
  /\ rerun = NoRun
  /\ module = NoFlags
  /\ default_flags = get_default_flags(module)
  /\ classes_map = <<>>
  /\ set_orders = <<>>

Classify ==
  /\ verdict = "pending"
  /\ verdict' = is_incompatible(arg)
  /\ UNCHANGED <<arg, gen_vars>>

NextClassify == Classify

SpecClassify == InitClassify /\ [][NextClassify]_vars

(***************************************************************************)
(* generate_module on one class                                            *)
(***************************************************************************)
\* lines 253-258: the ClassInfo of the class whose parameters are in params
entered_class ==
  ClassInfo(module.name,
            class_name(Len(classes_map) + 1),
            params,
            module.name \o <<".">> \o class_name(Len(classes_map) + 1))

Init ==
  /\ arg = Absent
  /\ verdict = "idle"
  /\ pc = "hints"
  /\ error = ""
  /\ sig = <<>>
  /\ params = <<>>
  /\ imports = {}
  /\ string_imports = {}
  /\ import_list = <<>>
  /\ rerun = NoRun
  /\ module = NoFlags
  /\ default_flags = get_default_flags(module)
  /\ classes_map = <<>>
  /\ set_orders = <<>>

\* what get_type_hints raises when it evaluates an annotation that is a
\* string: SyntaxError when the string is no expression, NameError when a
\* name in it is not defined, and whatever the evaluation of the expression
\* raises (AttributeError for "int.foo", TypeError for "Dict[str]",
\* ZeroDivisionError for "1/0", KeyError for "{}[0]", IndexError for
\* "[][0]"); Exception stands for every other one
ForwardRefErrors ==
  { "NameError", "SyntaxError", "AttributeError", "TypeError",
    "ZeroDivisionError", "KeyError", "IndexError", "Exception" }

\* line 195: get_type_hints
GetTypeHints ==
  /\ pc = "hints"
  /\ \/ pc' = "loop" /\ error' = ""
     \/ \E e \in ForwardRefErrors : pc' = "raised" /\ error' = e
  /\ UNCHANGED <<arg, verdict, sig, params, imports, string_imports,
                 import_list, rerun, mod_vars,
                 set_orders>>

\* lines 198-252: one iteration of the loop over sig.parameters, for a
\* parameter with one of the given declared types and defaults
loop_body(hints, defaults) ==
  /\ pc = "loop"
  /\ Len(sig) < MaxParams
  /\ \E hint \in hints, default_ \in defaults :
       /\ sig' = Append(sig, [hint |-> hint, default |-> default_])
       /\ IF body_raises(hint, default_) # ""
          THEN /\ pc' = "raised"
               /\ error' = body_raises(hint, default_)
               /\ imports' = imports \cup raised_imports(hint, default_)
               /\ string_imports' =
                    string_imports \cup raised_string_imports(hint, default_)
               /\ UNCHANGED <<params, set_orders>>
          ELSE /\ \E o \in met_orders(set_orders, hint) :
                    /\ params' = Append(params,
                          built_parameter(param_name(Len(sig) + 1), hint, default_, o))
                    /\ set_orders' = o
               /\ imports' = imports \cup body_imports(hint)
               /\ string_imports' = string_imports \cup body_string_imports(default_)
               /\ UNCHANGED <<pc, error>>
  /\ UNCHANGED <<arg, verdict, import_list, rerun, mod_vars>>

ProcessParameter == loop_body(GenHints, GenDefaults)

\* lines 253-268: the class is entered in classes_map, and the imports are
\* handed to the template
Render ==
  /\ pc = "loop"
  /\ pc' = "done"
  /\ classes_map' = Append(classes_map, entered_class)
  /\ import_list' = convert_imports(imports, string_imports)
  /\ UNCHANGED <<arg, verdict, error, sig, params, imports, string_imports,
                 rerun, module, default_flags,
                 set_orders>>

Next == GetTypeHints \/ ProcessParameter \/ Render

Spec == Init /\ [][Next]_vars

(***************************************************************************)
(* generate_module on one class whose defaults are lists, dicts and        *)
(* members of an Enum                                                      *)
(***************************************************************************)
ProcessContainerDefault == loop_body(ContainerHints, ContainerDefaults)

NextContainer == GetTypeHints \/ ProcessContainerDefault \/ Render

SpecContainer == Init /\ [][NextContainer]_vars

(***************************************************************************)
(* generate_module run twice on the same class: each run meets its own     *)
(* iteration order of the sets it builds                                   *)
(***************************************************************************)
ProcessParameterTwice ==
  /\ pc = "loop"
  /\ Len(sig) < MaxParams
  /\ \E hint \in DetHints, default_ \in DetDefaults :
       /\ body_raises(hint, default_) = ""
       /\ sig' = Append(sig, [hint |-> hint, default |-> default_])
       /\ \E o1 \in met_orders(set_orders, hint),
             o2 \in met_orders(rerun.set_orders, hint) :
            /\ params' = Append(params,
                  built_parameter(param_name(Len(sig) + 1), hint, default_, o1))
            /\ set_orders' = o1
            /\ rerun' =
                 [rerun EXCEPT
                    !.set_orders = o2,
                    !.params = Append(@,
                       built_parameter(param_name(Len(sig) + 1), hint, default_, o2)),
                    !.imports = @ \cup body_imports(hint),
                    !.string_imports = @ \cup body_string_imports(default_)]
       /\ imports' = imports \cup body_imports(hint)
       /\ string_imports' = string_imports \cup body_string_imports(default_)
  /\ UNCHANGED <<arg, verdict, pc, error, import_list, mod_vars>>

RenderTwice ==
  /\ pc = "loop"
  /\ pc' = "done"
  /\ classes_map' = Append(classes_map, entered_class)
  /\ import_list' = convert_imports(imports, string_imports)
  /\ rerun' = [rerun EXCEPT
                 !.import_list = convert_imports(rerun.imports, rerun.string_imports)]
  /\ UNCHANGED <<arg, verdict, error, sig, params, imports, string_imports,
                 module, default_flags,
                 set_orders>>

NextDet == GetTypeHints \/ ProcessParameterTwice \/ RenderTwice

SpecDet == Init /\ [][NextDet]_vars


(***************************************************************************)
(* generate_module on a module: the synthetic flags and the classes        *)
(***************************************************************************)
\* the declared type and the default of the attributes a signature is
\* built from
SigChoices ==
  { [hint |-> Absent, default |-> Default("int", <<"1">>)],
    [hint |-> Gen("Dict", <<UnionT(<<Cls("str"), Cls("int")>>), Cls("str")>>),
     default |-> NoDefault] }

DefaultFlagChoices ==
  { ModuleConf(c, r) : c \in {"None", "NONE", "PARTIAL", "ALL"},
                       r \in {"None", "True", "False"} }

\* the parameters that can follow the ones in s in the signature of an
\* __init__: self comes first, *args at most once, nothing after **kwargs,
\* what follows *args is keyword-only, and a parameter that can be passed
\* by position has a default when one before it has
NextParameters(s) ==
  IF s = <<>>
  THEN {SigParameter(<<"s", "e", "l", "f">>, "POSITIONAL_OR_KEYWORD", Absent, NoDefault)}
  ELSE IF s[Len(s)].kind = "VAR_KEYWORD" THEN {}
  ELSE LET var_positional == \E i \in 1..Len(s) : s[i].kind = "VAR_POSITIONAL"
           after_default ==
             \E i \in 1..Len(s) : /\ s[i].kind = "POSITIONAL_OR_KEYWORD"
                                  /\ s[i].default # NoDefault
       IN { SigParameter(param_name(Len(s)),
                         IF var_positional THEN "KEYWORD_ONLY"
                         ELSE "POSITIONAL_OR_KEYWORD",
                         c.hint, c.default) :
              c \in { x \in SigChoices :
                        \/ var_positional
                        \/ ~after_default
                        \/ x.default # NoDefault } }
          \cup (IF var_positional THEN {}
                ELSE {SigParameter(<<"a", "r", "g", "s">>, "VAR_POSITIONAL", Absent, NoDefault)})
          \cup {SigParameter(<<"k", "w", "a", "r", "g", "s">>, "VAR_KEYWORD", Absent, NoDefault)}

InitModule ==
  /\ arg = Absent
  /\ verdict = "idle"
  /\ pc = "flags"
  /\ error = ""
  /\ sig = <<>>
  /\ params = <<>>
  /\ imports = {}
  /\ string_imports = {}
  /\ import_list = <<>>
  /\ rerun = NoRun
  /\ module \in DefaultFlagChoices
  /\ default_flags = <<>>
  /\ classes_map = <<>>
  /\ set_orders = <<>>

\* line 188
GetDefaultFlags ==
  /\ pc = "flags"
  /\ default_flags' = get_default_flags(module)
  /\ pc' = "classes"
  /\ UNCHANGED <<arg, verdict, error, sig, params, imports, string_imports,
                 import_list, rerun, module, classes_map,
                 set_orders>>

\* lines 190-196: the next class of module.classes; params is a new list
\* that default_flags is copied into
BeginClass ==
  /\ pc = "classes"
  /\ Len(classes_map) < MaxClasses
  /\ params' = <<>> \o default_flags
  /\ sig' = <<>>
  /\ pc' = "hints"
  /\ UNCHANGED <<arg, verdict, error, imports, string_imports, import_list,
                 rerun, mod_vars,
                 set_orders>>

\* lines 198-252: one iteration of the loop over sig.parameters
ProcessSigParameter ==
  /\ pc = "loop"
  /\ Len(sig) <= MaxParams
  /\ \E p \in NextParameters(sig) :
       /\ sig' = Append(sig, p)
       /\ IF skipped(p)
          THEN UNCHANGED <<pc, error, params, imports, string_imports,
                           set_orders>>
          ELSE IF body_raises(p.hint, p.default) # ""
          THEN /\ pc' = "raised"
               /\ error' = body_raises(p.hint, p.default)
               /\ imports' = imports \cup raised_imports(p.hint, p.default)
               /\ string_imports' =
                    string_imports \cup raised_string_imports(p.hint, p.default)
               /\ UNCHANGED <<params, set_orders>>
          ELSE /\ \E o \in met_orders(set_orders, p.hint) :
                    /\ params' = Append(params,
                          built_parameter(p.name, p.hint, p.default, o))
                    /\ set_orders' = o
               /\ imports' = imports \cup body_imports(p.hint)
               /\ string_imports' = string_imports \cup body_string_imports(p.default)
               /\ UNCHANGED <<pc, error>>
  /\ UNCHANGED <<arg, verdict, import_list, rerun, mod_vars>>

\* lines 253-258: the class is entered in classes_map
EndClass ==
  /\ pc = "loop"
  /\ classes_map' = Append(classes_map, entered_class)
  /\ module' = [module EXCEPT !.classes = Append(@, sig)]
  /\ pc' = "classes"
  /\ UNCHANGED <<arg, verdict, error, sig, params, imports, string_imports,
                 import_list, rerun, default_flags,
                 set_orders>>

\* lines 260-268: the imports handed to the template
RenderModule ==
  /\ pc = "classes"
  /\ pc' = "done"
  /\ import_list' = convert_imports(imports, string_imports)
  /\ UNCHANGED <<arg, verdict, error, sig, params, imports, string_imports,
                 rerun, mod_vars,
                 set_orders>>

NextModule ==
  \/ GetDefaultFlags
  \/ BeginClass
  \/ GetTypeHints
  \/ ProcessSigParameter
  \/ EndClass
  \/ RenderModule

SpecModule == InitModule /\ [][NextModule]_vars
(***************************************************************************)
(* Properties                                                              *)
(***************************************************************************)
starts_with(s, prefix) ==
  Len(prefix) <= Len(s) /\ SubSeq(s, 1, Len(prefix)) = prefix

ends_with(s, suffix) ==
  Len(suffix) <= Len(s) /\ SubSeq(s, Len(s) - Len(suffix) + 1, Len(s)) = suffix

\* the text holds the separator that introduces the comment
has_comment(s) ==
  \E i \in 1..Len(s) : starts_with(SubSeq(s, i, Len(s)), <<" ", " ", "#", " ">>)

\* the value the default starts with, before any comment
value_is(s, value) == s = value \/ starts_with(s, value \o <<" ", " ", "#", " ">>)

\* the rendering of a declared type that holds no set of several classes
rendered(hint) == type_str(hint, CHOOSE o \in iteration_orders(hint) : TRUE)

\* the parameters a Parameter was recorded for
Recorded == 1..Len(params)

classified == verdict \notin {"pending", "idle"}

\* C1: the builder never raises for an individual parameter: whatever the
\* declared type and the default of a parameter, is_incompatible returns a
\* verdict, exactly one Parameter is appended for it, and no classification
\* failure leaves generate_module.
C1_NeverRaisesForParameter ==
  /\ Len(params) = Len(sig)
  /\ pc = "raised" => sig = <<>>

\* the members of the Union that is left of arg when None is taken out
union_members == _resolve_optional(arg)[2].a
union_classified == classified /\ is_union_annotation(_resolve_optional(arg)[2])

\* C2 as stated: a Union is compatible iff every member is int, float, str,
\* bool, an enum, or a Literal.
C2_UnionOfListedPrimitives ==
  union_classified =>
    (verdict = "False" <=>
       \A i \in 1..Len(union_members) :
          LET m == union_members[i] IN
          \/ m.k = "Literal"
          \/ /\ m.k = "class"
             /\ m.n \in {"int", "float", "str", "bool"} \/ "Enum" \in Mro[m.n])

\* C2: a Union (None taken out) is classified, without an exception, and it
\* is compatible iff every member is a Literal or one of the classes int,
\* float, bool, str, bytes, or a subclass of Enum or of Path;
\* Union[int, float] is compatible and Union[int, User] is incompatible.
C2_UnionRule ==
  union_classified =>
    /\ verdict \in {"False", "True"}
    /\ verdict = "False" <=>
         \A i \in 1..Len(union_members) :
            LET m == union_members[i] IN
            \/ m.k = "Literal"
            \/ /\ m.k = "class"
               /\ \/ m.n \in {"int", "float", "bool", "str", "bytes"}
                  \/ Mro[m.n] \cap {"Enum", "Path"} # {}
    /\ arg = UnionT(<<Cls("int"), Cls("float")>>) => verdict = "False"
    /\ arg = UnionT(<<Cls("int"), Cls("User")>>) => verdict = "True"

C2_Witness ==
  /\ arg = UnionT(<<Cls("str"), Cls("Path")>>)
  /\ verdict = "False"

\* C3: a parameterized mapping is compatible iff its key type is str or an
\* enum type and its value type is compatible; every other key type makes
\* it incompatible, whatever the value type.
C3_MappingRule ==
  (classified /\ arg.k = "generic" /\ arg.n \in {"Dict", "dict"}) =>
    LET key == arg.a[1]
        key_ok == key.k = "class" /\ Mro[key.n] \cap {"str", "Enum"} # {}
    IN /\ verdict = "False" <=> (key_ok /\ is_incompatible(arg.a[2]) = "False")
       /\ ~key_ok => verdict = "True"

\* C4: list, dict and tuple without parameters are compatible, in the
\* builtin and in the typing spelling, and List[T] gets the verdict of T.
C4_BareContainersCompatible ==
  classified =>
    /\ arg \in BareBuiltins \cup BareAliases => verdict = "False"
    /\ (arg.k = "generic" /\ arg.n \in {"List", "list"}) =>
          verdict = is_incompatible(arg.a[1])

\* C5 as stated: the recorded type is "Any" iff the annotation is missing or
\* incompatible.
C5_AnyIffDegraded ==
  \A i \in Recorded :
     params[i].type_str = <<"A", "n", "y">> <=>
        \/ missing_annotation_type(sig[i].hint)
        \/ is_incompatible(sig[i].hint) = "True"

\* C5: the recorded type is "Any" when the annotation is missing or
\* incompatible and the rendering of the declared type otherwise, so it is
\* "Any" iff the annotation is missing, incompatible or renders as "Any";
\* when "Any" is recorded, Any is in imports and its import statement is in
\* the list handed to the template.
C5_RecordedType ==
  \A i \in Recorded :
     LET hint == sig[i].hint
         p == params[i]
         deg == \/ missing_annotation_type(hint)
                \/ is_incompatible(hint) = "True"
     IN /\ deg => p.type_str = <<"A", "n", "y">>
        /\ ~deg => p.type_str = rendered(hint)
        /\ p.type_str = <<"A", "n", "y">> <=> (deg \/ rendered(hint) = <<"A", "n", "y">>)
        /\ p.type_str = <<"A", "n", "y">> => AnyT \in imports
        /\ (p.type_str = <<"A", "n", "y">> /\ pc = "done") =>
              \E j \in 1..Len(import_list) :
                 import_list[j] = <<"f", "r", "o", "m", " ", "t", "y", "p", "i", "n", "g", " ", "i", "m", "p", "o", "r", "t", " ", "A", "n", "y">>

C5_Witness ==
  /\ pc = "done"
  /\ \E i \in Recorded :
        sig[i].hint = Cls("LibraryClass") /\ params[i].type_str = <<"A", "n", "y">>
  /\ \E i \in Recorded :
        sig[i].hint = Gen("List", <<Cls("str")>>) /\ params[i].type_str = <<"L", "i", "s", "t", "[", "s", "t", "r", "]">>

\* C6: the recorded default is MISSING iff no default was supplied or the
\* class of the default is incompatible, whatever the declared type.
C6_MissingDefault ==
  \A i \in Recorded :
     value_is(params[i].default, <<"M", "I", "S", "S", "I", "N", "G">>) <=>
        \/ sig[i].default = NoDefault
        \/ is_incompatible(Cls(sig[i].default.cls)) = "True"

C6_Witness ==
  \E i \in Recorded, j \in Recorded :
     /\ sig[i].default = Pesky
     /\ sig[i].hint = Cls("str")
     /\ params[i].default = <<"M", "I", "S", "S", "I", "N", "G", " ", " ", "#", " ", "P", "e", "s", "k", "y", "S", "e", "n", "t", "i", "n", "e", "l">>
     /\ sig[j].default = EmptyList
     /\ ~value_is(params[j].default, <<"M", "I", "S", "S", "I", "N", "G">>)

\* C7: a parameter with no default and a declared type classified
\* incompatible yields a Parameter with type Any and the default MISSING
\* followed by a comment with the rendered name of the declared type; a
\* recorded default carries a comment iff the declared type or the class of
\* the default was classified incompatible, and the comment names the
\* declared type in the first case and the class of the default otherwise.
C7_Comment ==
  \A i \in 1..Len(sig) :
     LET hint == sig[i].hint
         d == sig[i].default
         ia == hint # Absent /\ is_incompatible(hint) = "True"
         iv == d # NoDefault /\ is_incompatible(Cls(d.cls)) = "True"
     IN /\ (d = NoDefault /\ ia) =>
              /\ i \in Recorded
              /\ params[i].type_str = <<"A", "n", "y">>
              /\ params[i].default = <<"M", "I", "S", "S", "I", "N", "G", " ", " ", "#", " ">> \o rendered(hint)
        /\ i \in Recorded =>
              /\ has_comment(params[i].default) <=> (ia \/ iv)
              /\ ia => ends_with(params[i].default, <<" ", " ", "#", " ">> \o rendered(hint))
              /\ (~ia /\ iv) =>
                    ends_with(params[i].default, <<" ", " ", "#", " ">> \o Chars[d.cls])

\* C8 as stated: a list or mapping default is recorded as a deferred-factory
\* expression, whatever the declared type.
C8_AlwaysFactory ==
  \A i \in Recorded :
     (isinstance(sig[i].default, "list") \/ isinstance(sig[i].default, "dict")) =>
        starts_with(params[i].default, <<"f", "i", "e", "l", "d", "(", "d", "e", "f", "a", "u", "l", "t", "_", "f", "a", "c", "t", "o", "r", "y", "=", "l", "a", "m", "b", "d", "a", ":", " ">>)

\* C8: a default that is a list or a dict (of the class list or dict or of
\* a subclass) is recorded as the deferred-factory expression of its text
\* (a comment may follow) unless its class is classified incompatible,
\* which makes it MISSING, or, its class being compatible, the declared
\* type is str, which makes it a quoted string; the classes list and dict
\* themselves are compatible.
C8_FactoryUnlessStr ==
  /\ is_incompatible(Cls("list")) = "False"
  /\ is_incompatible(Cls("dict")) = "False"
  /\ \A i \in Recorded :
       LET hint == sig[i].hint
           d == sig[i].default
           p == params[i]
       IN (isinstance(d, "list") \/ isinstance(d, "dict")) =>
             IF is_incompatible(Cls(d.cls)) = "True"
             THEN value_is(p.default, <<"M", "I", "S", "S", "I", "N", "G">>)
             ELSE IF hint = Cls("str")
             THEN p.default = <<"\"">> \o d.text \o <<"\"">>
             ELSE value_is(p.default,
                           <<"f", "i", "e", "l", "d", "(", "d", "e", "f", "a", "u", "l", "t", "_", "f", "a", "c", "t", "o", "r", "y", "=", "l", "a", "m", "b", "d", "a", ":", " ">> \o d.text \o <<")">>)

C8_Witness ==
  \E i \in Recorded, j \in Recorded :
     /\ sig[i].default = DataListObj
     /\ sig[i].hint = Cls("LibraryClass")
     /\ params[i].default =
          <<"f", "i", "e", "l", "d", "(", "d", "e", "f", "a", "u", "l", "t", "_", "f", "a", "c", "t", "o", "r", "y", "=", "l", "a", "m", "b", "d", "a", ":", " ", "D", "a", "t", "a", "L", "i", "s", "t", "(", ")", ")", " ", " ", "#", " ", "L", "i", "b", "r", "a", "r", "y", "C", "l", "a", "s", "s">>
     /\ sig[j].default = EmptyList
     /\ sig[j].hint = Cls("str")
     /\ params[j].default = <<"\"", "[", "]", "\"">>

\* C9 as stated: an enum member as default is recorded as the unquoted
\* qualified member name and its class is imported, whatever the declared
\* type.
C9_AlwaysQualifiedName ==
  \A i \in Recorded :
     isinstance(sig[i].default, "Enum") =>
        /\ value_is(params[i].default,
                    Chars[sig[i].default.cls] \o <<".">> \o sig[i].default.name)
        /\ import_line(ModuleOf[sig[i].default.cls], Chars[sig[i].default.cls])
             \in string_imports

\* C9: an enum member as default has the import of its class from the
\* defining module in string_imports (and in the list handed to the
\* template) whatever the declared type; it is recorded as the unquoted
\* qualified member name Class.MEMBER (a comment may follow) unless the
\* declared type is str, which makes it the text format() gives for the
\* member, wrapped in quotes: "Class.MEMBER" for a member of a plain Enum,
\* the value ("1") for a member of an IntEnum.
C9_EnumDefault ==
  \A i \in Recorded :
     LET hint == sig[i].hint
         d == sig[i].default
         p == params[i]
         line == <<"f", "r", "o", "m", " ">> \o ModuleOf[d.cls] \o <<" ", "i", "m", "p", "o", "r", "t", " ">> \o Chars[d.cls]
     IN isinstance(d, "Enum") =>
          /\ line \in string_imports
          /\ pc = "done" =>
               \E j \in 1..Len(import_list) : import_list[j] = line
          /\ IF hint = Cls("str") THEN p.default = <<"\"">> \o d.text \o <<"\"">>
             ELSE value_is(p.default, Chars[d.cls] \o <<".">> \o d.name)

C9_Witness ==
  /\ pc = "done"
  /\ \E i \in Recorded, j \in Recorded :
       /\ sig[i].default = IntColorRED
       /\ sig[i].hint = Cls("str")
       /\ params[i].default = <<"\"", "1", "\"">>
       /\ sig[j].default = ColorRED
       /\ sig[j].hint = Cls("LibraryClass")
       /\ params[j].default = <<"C", "o", "l", "o", "r", ".", "R", "E", "D", " ", " ", "#", " ", "L", "i", "b", "r", "a", "r", "y", "C", "l", "a", "s", "s">>
       /\ <<"f", "r", "o", "m", " ", "t", "e", "s", "t", "s", ".", "t", "e", "s", "t", "_", "m", "o", "d", "u", "l", "e", "s", " ", "i", "m", "p", "o", "r", "t", " ", "I", "n", "t", "C", "o", "l", "o", "r">> \in string_imports
       /\ <<"f", "r", "o", "m", " ", "t", "e", "s", "t", "s", ".", "t", "e", "s", "t", "_", "m", "o", "d", "u", "l", "e", "s", " ", "i", "m", "p", "o", "r", "t", " ", "C", "o", "l", "o", "r">> \in string_imports

\* the list is in ascending order and holds no line twice
strictly_ascending(lines) ==
  \A i \in 1..(Len(lines) - 1) : StrLess(lines[i], lines[i + 1])

\* C10: generation is deterministic: two runs on the same class record the
\* same Parameters and hand the same import list to the template, whatever
\* order their sets are iterated in; the import list is in ascending order
\* without duplicates.
C10_Deterministic ==
  /\ params = rerun.params
  /\ import_list = rerun.import_list
  /\ strictly_ascending(import_list)


\* the parameters of a signature that are attributes: all but self, *args
\* and **kwargs, in declaration order
attributes(s) ==
  SelectSeq(s, LAMBDA p :
     p.name # <<"s", "e", "l", "f">> /\ p.kind \notin {"VAR_POSITIONAL", "VAR_KEYWORD"})

\* the parameter list of a class with signature s: the configured flags,
\* _convert_ before _recursive_, then one Parameter for each attribute
flags_then_attributes(parameters, s) ==
  LET flags == module.default_flags
      nc == IF flags._convert_ # "None" THEN 1 ELSE 0
      nr == IF flags._recursive_ # "None" THEN 1 ELSE 0
      attrs == attributes(s)
  IN /\ Len(parameters) = nc + nr + Len(attrs)
     /\ nc = 1 =>
          parameters[1] =
            Parameter(<<"_", "c", "o", "n", "v", "e", "r", "t", "_">>, <<"s", "t", "r">>,
                      <<"\"">> \o ConvertModeName[flags._convert_] \o <<"\"">>)
     /\ nr = 1 =>
          parameters[nc + 1] =
            Parameter(<<"_", "r", "e", "c", "u", "r", "s", "i", "v", "e", "_">>, <<"b", "o", "o", "l">>, BoolStr[flags._recursive_])
     /\ \A i \in 1..Len(attrs) : parameters[nc + nr + i].name = attrs[i].name

\* C11: for every class of the module, at whatever position, the parameter
\* list is the configured flags (_convert_ as the quoted name of the mode,
\* then _recursive_ as True or False, each present iff configured) followed
\* by exactly one Parameter for each parameter of __init__ in declaration
\* order, self, *args and **kwargs left out; the flags are there once for
\* each class and are not carried over from the class before.
C11_FlagsThenAttributes ==
  /\ pc \in {"hints", "loop"} => flags_then_attributes(params, sig)
  /\ \A c \in 1..Len(classes_map) :
        flags_then_attributes(classes_map[c].parameters, module.classes[c])

C11_Witness ==
  /\ Len(classes_map) = 2
  /\ module.default_flags = [_convert_ |-> "PARTIAL", _recursive_ |-> "False"]
  /\ classes_map[1].parameters =
       << Parameter(<<"_", "c", "o", "n", "v", "e", "r", "t", "_">>, <<"s", "t", "r">>, <<"\"", "P", "A", "R", "T", "I", "A", "L", "\"">>),
          Parameter(<<"_", "r", "e", "c", "u", "r", "s", "i", "v", "e", "_">>, <<"b", "o", "o", "l">>, <<"F", "a", "l", "s", "e">>),
          Parameter(<<"p", "1">>, <<"A", "n", "y">>, <<"1">>),
          Parameter(<<"p", "2">>, <<"A", "n", "y">>, <<"1">>) >>
  /\ Len(module.classes[2]) = 3
  /\ module.classes[2][2].kind = "VAR_POSITIONAL"
  /\ classes_map[2].parameters =
       << Parameter(<<"_", "c", "o", "n", "v", "e", "r", "t", "_">>, <<"s", "t", "r">>, <<"\"", "P", "A", "R", "T", "I", "A", "L", "\"">>),
          Parameter(<<"_", "r", "e", "c", "u", "r", "s", "i", "v", "e", "_">>, <<"b", "o", "o", "l">>, <<"F", "a", "l", "s", "e">>),
          Parameter(<<"p", "2">>, <<"A", "n", "y">>, <<"1">>) >>

\* the default is the text wrapped in quotes, before any comment
quote_wrapped(s, text) == value_is(s, <<"\"">> \o text \o <<"\"">>)

\* the parameters recorded for a supplied default whose class is compatible
WithCompatibleDefault ==
  { i \in Recorded :
      /\ sig[i].default # NoDefault
      /\ is_incompatible(Cls(sig[i].default.cls)) = "False" }

\* C12 as stated: a supplied default of compatible class is wrapped in
\* quotes iff it is a string, and a default that is no string, list, mapping
\* or enum member is recorded as its text without quotes, whatever the
\* declared type.
C12_QuotedIffStringDefault ==
  \A i \in WithCompatibleDefault :
     LET d == sig[i].default IN
     /\ quote_wrapped(params[i].default, d.text) <=> d.cls = "str"
     /\ (/\ d.cls # "str"
         /\ ~isinstance(d, "list")
         /\ ~isinstance(d, "dict")
         /\ ~isinstance(d, "Enum")) => value_is(params[i].default, d.text)

\* the literal text of a default: Class.MEMBER for a member of an Enum,
\* what str() gives otherwise
literal_text(d) ==
  IF isinstance(d, "Enum") THEN Chars[d.cls] \o <<".">> \o d.name ELSE d.text

\* C12: a supplied default of compatible class is wrapped in quotes iff its
\* class is str or the declared type is exactly str; a default that is not
\* wrapped in quotes and is no list or mapping is recorded as its literal
\* text.
C12_QuotedIffStrDefaultOrType ==
  \A i \in WithCompatibleDefault :
     LET d == sig[i].default IN
     /\ quote_wrapped(params[i].default, d.text) <=>
          (d.cls = "str" \/ sig[i].hint = Cls("str"))
     /\ (/\ d.cls # "str"
         /\ sig[i].hint # Cls("str")
         /\ ~isinstance(d, "list")
         /\ ~isinstance(d, "dict")) =>
           value_is(params[i].default, literal_text(d))

C12_Witness ==
  \E i \in Recorded, j \in Recorded :
     /\ sig[i].hint = Cls("str")
     /\ sig[i].default = Default("int", <<"1">>)
     /\ params[i].default = <<"\"", "1", "\"">>
     /\ sig[j].hint = Absent
     /\ sig[j].default = Default("NoneType", <<"N", "o", "n", "e">>)
     /\ params[j].default = <<"N", "o", "n", "e">>
====
